---- MODULE Spec2Model ----
(***************************************************************************)
(* Model of pipeline/mimicit_utils/mimicit_dataset.py (Otter):             *)
(*   - random_seed, the scoped seeding of the process-wide `random` and    *)
(*     NumPy generators;                                                   *)
(*   - MimicitDataset: set_epoch, the six task templates, the dispatch and *)
(*     assembly in process_image_text_pair, and __getitem__;               *)
(*   - collate_fn and collate_tokens.                                      *)
(* Three specifications share the variables: SpecScope (random_seed used   *)
(* as a context manager, nested, with draws and failing bodies), Spec (the *)
(* dataset object) and SpecCollate (the collation functions applied to     *)
(* inputs drawn by Init).                                                  *)
(***************************************************************************)
EXTENDS Integers, Sequences, FiniteSets, TLC

VARIABLES
    rnd,        \* state of the process-wide `random` generator
    npr,        \* state of the process-wide np.random generator
    stack,      \* open random_seed scopes, innermost last (generator frames)
    entryLog,   \* history: per open seeding scope, the states just before entry
    lastOp,     \* history: the last operation on the generators or the scopes
    seed,       \* self.seed (args.pretrain_seed)
    epoch,      \* self.epoch
    last,       \* history: outcome of the __getitem__ call just made
    samples,    \* argument of collate_fn / values of collate_tokens
    batch,      \* result of the last collate_fn call
    padded,     \* result of the last collate_tokens call, with its arguments
    workers,    \* per worker thread: where it is and its random_seed frame
    wlog        \* history: the workers' entries and exits, in order

vars == <<rnd, npr, stack, entryLog, lastOp, seed, epoch, last,
          samples, batch, padded, workers, wlog>>

scopeVars == <<stack, entryLog, lastOp>>
dataVars == <<seed, epoch, last>>
collateVars == <<samples, batch, padded>>
workerVars == <<workers, wlog>>

(***************************************************************************)
(* Bounds of the model.                                                    *)
(***************************************************************************)
RngMod == 4         \* number of distinct generator states
MaxDepth == 2       \* deepest nesting of random_seed scopes
MaxEpoch == 1       \* epochs are 0..MaxEpoch

(***************************************************************************)
(* Optional values: Python's None is the empty tuple, a value v is <<v>>.  *)
(***************************************************************************)
None == <<>>
Some(v) == <<v>>

\* F applied to the value of v, with v evaluated once
Bind(v, F(_)) == CHOOSE r \in {F(x) : x \in {v}} : TRUE

(***************************************************************************)
(* The generators.  A state is a number below RngMod; seeding maps the     *)
(* seed onto a state, every draw advances the state and yields it.         *)
(***************************************************************************)
RngStates == 0 .. (RngMod - 1)

Seeded(s) == s % RngMod

Advance(s) == (s + 1) % RngMod

\* random._randbelow(n): one draw, reduced to 0..n-1
RandBelow(s, n) == [value |-> Advance(s) % n, state |-> Advance(s)]

\* hash((seed, *addl_seeds)): a deterministic mixing of the tuple's integers
HashMult == 31
HashMod == 1048576
RECURSIVE TupleHash(_, _)
TupleHash(acc, t) ==
    IF t = <<>> THEN acc
    ELSE TupleHash((acc * HashMult + Head(t) + HashMod) % HashMod, Tail(t))

\* int(hash((seed, *addl_seeds)) % 1e6)
SeedSpace == 1000000
DeriveSeed(s, addl) == TupleHash(7, <<s>> \o addl) % SeedSpace

\* np.random.seed accepts only 0 .. 2**32 - 1 (the seeds of the model stay far
\* below the upper end, so only the lower end is tested)
NumpySeedOk(s) == s >= 0

(***************************************************************************)
(* random_seed (lines 35-53).  A generator frame keeps the two saved       *)
(* states; a frame suspended at the passthrough yield of line 40 keeps     *)
(* none.                                                                   *)
(***************************************************************************)
PassFrame == [passthrough |-> TRUE, numpy_state |-> None, random_state |-> None]

\* random_seed without the `if seed is None` passthrough of lines 39-41
random_seed_enter_no_passthrough(sd, addl, r, n) ==
    LET b == IF sd = None THEN 0 ELSE sd[1]
        s == IF Len(addl) > 0 THEN DeriveSeed(b, addl) ELSE b
    IN  [ok |-> TRUE,
         frame |-> [passthrough |-> FALSE, numpy_state |-> Some(n),
                    random_state |-> Some(r)],
         rnd |-> Seeded(s), npr |-> Seeded(s)]

\* The code up to the yield.  ok = FALSE: np.random.seed raised ValueError at
\* line 46, before the try block and before either generator was changed.
random_seed_enter(sd, addl, r, n) ==
    IF sd = None
    THEN [ok |-> TRUE, frame |-> PassFrame, rnd |-> r, npr |-> n]
    ELSE LET s == IF Len(addl) > 0 THEN DeriveSeed(sd[1], addl) ELSE sd[1]
         IN  IF ~NumpySeedOk(s)
             THEN [ok |-> FALSE, frame |-> PassFrame, rnd |-> r, npr |-> n]
             ELSE [ok |-> TRUE,
                   frame |-> [passthrough |-> FALSE,
                              numpy_state |-> Some(n),
                              random_state |-> Some(r)],
                   rnd |-> Seeded(s), npr |-> Seeded(s)]

\* random_seed whose restore is not in a finally block: skipped when the body
\* raises
random_seed_exit_no_finally(frame, raised, r, n) ==
    IF frame.passthrough \/ raised
    THEN [rnd |-> r, npr |-> n, propagates |-> raised]
    ELSE [rnd |-> frame.random_state[1], npr |-> frame.numpy_state[1],
          propagates |-> raised]

\* random_seed whose exit restores nothing
random_seed_exit_no_restore(frame, raised, r, n) ==
    [rnd |-> r, npr |-> n, propagates |-> raised]

\* The code after the yield: resumed normally (raised = FALSE) or with the
\* body's exception thrown into the generator (raised = TRUE).  The finally
\* block runs on both paths; the passthrough frame has nothing to run.
random_seed_exit(frame, raised, r, n) ==
    IF frame.passthrough
    THEN [rnd |-> r, npr |-> n, propagates |-> raised]
    ELSE [rnd |-> frame.random_state[1], npr |-> frame.numpy_state[1],
          propagates |-> raised]

(***************************************************************************)
(* SpecScope: random_seed used directly as a context manager.              *)
(***************************************************************************)
ScopeSeeds == {None, Some(-1), Some(1), Some(2)}
ScopeAddl == {<<>>, <<0>>, <<1>>}

NoOp == [op |-> "none", nullseed |-> FALSE, raised |-> FALSE,
         changed |-> FALSE, after |-> "none", depth |-> 0]

NoLast == [kind |-> "none"]
NoPadded == [kind |-> "none"]
NoBatch == [kind |-> "none"]
Workers == {"A", "B"}
IdleWorker == [pc |-> "idle", frame |-> PassFrame]
NoWorkers == [w \in Workers |-> IdleWorker]
NoWlog == [origin |-> None, second |-> None, events |-> <<>>]

InitScope ==
    /\ rnd \in RngStates
    /\ npr \in RngStates
    /\ stack = <<>>
    /\ entryLog = <<>>
    /\ lastOp = NoOp
    /\ seed = None
    /\ epoch = 0
    /\ last = NoLast
    /\ samples = <<>>
    /\ batch = NoBatch
    /\ padded = NoPadded
    /\ workers = NoWorkers
    /\ wlog = NoWlog

Top(s) == s[Len(s)]

Pop(s) == SubSeq(s, 1, Len(s) - 1)

\* with random_seed(sd, *addl): ... is entered
Enter(sd, addl) ==
    /\ Len(stack) < MaxDepth
    /\ LET e == random_seed_enter(sd, addl, rnd, npr)
       IN  /\ rnd' = e.rnd
           /\ npr' = e.npr
           /\ IF e.ok
              THEN /\ stack' = Append(stack, e.frame)
                   /\ entryLog' = Append(entryLog,
                          IF sd = None THEN None
                          ELSE Some([rnd |-> rnd, npr |-> npr]))
                   /\ lastOp' = [NoOp EXCEPT !.op = "enter",
                                    !.nullseed = (sd = None),
                                    !.after = lastOp.op,
                                    !.depth = Len(stack) + 1]
              ELSE /\ UNCHANGED <<stack, entryLog>>
                   /\ lastOp' = [NoOp EXCEPT !.op = "enter_failed",
                                    !.after = lastOp.op]
    /\ UNCHANGED <<dataVars, collateVars, workerVars>>

\* a draw from `random`, inside or outside a scope
DrawRandom ==
    /\ rnd' = Advance(rnd)
    /\ lastOp' = [NoOp EXCEPT !.op = "draw_random"]
    /\ UNCHANGED <<npr, stack, entryLog, dataVars, collateVars, workerVars>>

\* a draw from np.random, inside or outside a scope
DrawNumpy ==
    /\ npr' = Advance(npr)
    /\ lastOp' = [NoOp EXCEPT !.op = "draw_numpy"]
    /\ UNCHANGED <<rnd, stack, entryLog, dataVars, collateVars, workerVars>>

\* The innermost scope is left: its body completed (raised = FALSE) or an
\* exception left it (raised = TRUE).
Leave(raised) ==
    /\ stack # <<>>
    /\ LET x == random_seed_exit(Top(stack), raised, rnd, npr)
       IN  /\ rnd' = x.rnd
           /\ npr' = x.npr
           /\ stack' = Pop(stack)
           /\ entryLog' = Pop(entryLog)
           /\ lastOp' = [op |-> "exit",
                         nullseed |-> (Top(entryLog) = None),
                         raised |-> x.propagates,
                         changed |-> (x.rnd # rnd /\ x.npr # npr),
                         after |-> lastOp.op,
                         depth |-> Len(stack)]
    /\ UNCHANGED <<dataVars, collateVars, workerVars>>

ExitNormal == Leave(FALSE)

ExitRaised == Leave(TRUE)

NextScope ==
    \/ \E sd \in ScopeSeeds, addl \in ScopeAddl : Enter(sd, addl)
    \/ DrawRandom
    \/ DrawNumpy
    \/ ExitNormal
    \/ ExitRaised

SpecScope == InitScope /\ [][NextScope]_vars

(***************************************************************************)
(* SpecWorkers: two worker threads of one process, each running one        *)
(* __getitem__-style scope "with random_seed(seed, epoch): <draws>" on the *)
(* process-wide generators, interleaved in every order.  Each worker's     *)
(* generator object keeps its own numpy_state and random_state locals;     *)
(* the generators themselves are shared.                                   *)
(***************************************************************************)
WorkerSeeds == {Some(1), Some(2)}
WorkerAddl == {<<e>> : e \in 0 .. MaxEpoch}

InitWorkers ==
    /\ rnd \in RngStates
    /\ npr \in RngStates
    /\ stack = <<>>
    /\ entryLog = <<>>
    /\ lastOp = NoOp
    /\ seed = None
    /\ epoch = 0
    /\ last = NoLast
    /\ samples = <<>>
    /\ batch = NoBatch
    /\ padded = NoPadded
    /\ workers = NoWorkers
    /\ wlog = NoWlog

\* worker w reaches the with statement: the code up to the yield runs
WorkerEnter(w, sd, addl) ==
    /\ workers[w].pc = "idle"
    /\ \E e \in {random_seed_enter(sd, addl, rnd, npr)} :
         /\ e.ok
         /\ rnd' = e.rnd
         /\ npr' = e.npr
         /\ workers' = [workers EXCEPT ![w] = [pc |-> "in", frame |-> e.frame]]
    /\ wlog' = [origin |-> IF wlog.events = <<>> THEN Some(<<rnd, npr>>)
                           ELSE wlog.origin,
                second |-> IF wlog.events = <<>> THEN None
                           ELSE Some(<<rnd, npr>>),
                events |-> Append(wlog.events, <<w, "enter">>)]
    /\ UNCHANGED <<scopeVars, dataVars, collateVars>>

\* worker w draws inside its scope (random.shuffle of line 225)
WorkerDrawRandom(w) ==
    /\ workers[w].pc = "in"
    /\ rnd' = Advance(rnd)
    /\ UNCHANGED <<npr, scopeVars, dataVars, collateVars, workerVars>>

\* worker w draws from np.random inside its scope
WorkerDrawNumpy(w) ==
    /\ workers[w].pc = "in"
    /\ npr' = Advance(npr)
    /\ UNCHANGED <<rnd, scopeVars, dataVars, collateVars, workerVars>>

\* worker w leaves its with block, normally or by an exception: the code
\* after the yield runs with the locals of w's own generator
WorkerExit(w, raised) ==
    /\ workers[w].pc = "in"
    /\ \E x \in {random_seed_exit(workers[w].frame, raised, rnd, npr)} :
         /\ rnd' = x.rnd
         /\ npr' = x.npr
    /\ workers' = [workers EXCEPT ![w] = [pc |-> "done", frame |-> PassFrame]]
    /\ wlog' = [wlog EXCEPT !.events = Append(@, <<w, "exit">>)]
    /\ UNCHANGED <<scopeVars, dataVars, collateVars>>

NextWorkers ==
    \/ \E w \in Workers, sd \in WorkerSeeds, addl \in WorkerAddl :
          WorkerEnter(w, sd, addl)
    \/ \E w \in Workers : WorkerDrawRandom(w)
    \/ \E w \in Workers : WorkerDrawNumpy(w)
    \/ \E w \in Workers, raised \in BOOLEAN : WorkerExit(w, raised)

SpecWorkers == InitWorkers /\ [][NextWorkers]_vars

(***************************************************************************)
(* The corpus loaded by __init__ (lines 103-115): self.dataset, self.images *)
(* and self.train_config, fixed for the life of the object.  Record ids    *)
(* are sequences of characters, so that str.startswith is a prefix test.   *)
(* Every task tag gets the same variants of target record and plan.        *)
(***************************************************************************)
Tags == << <<"L", "A">>, <<"D", "C">>, <<"E", "4", "D">>, <<"S", "D">>,
           <<"S", "N">>, <<"F", "u", "n", "Q", "A">> >>

Ctx1 == <<"c", "1">>     \* in-context record with one image
Ctx2 == <<"c", "2">>     \* in-context record with two images
Ctx3 == <<"c", "3">>     \* in-context record with no image
Gone == <<"c", "9">>     \* an id that no record has

Variants ==
    << [image_ids |-> <<"a">>,       plan |-> <<>>],
       [image_ids |-> <<"a">>,       plan |-> <<Ctx1>>],
       [image_ids |-> <<"a">>,       plan |-> <<Ctx1, Ctx2>>],
       [image_ids |-> <<>>,          plan |-> <<Ctx1, Ctx2>>],
       [image_ids |-> <<"a", "b">>,  plan |-> <<Ctx1, Ctx2>>],
       [image_ids |-> <<"zz">>,      plan |-> <<Ctx1>>],
       [image_ids |-> <<"a", "zz">>, plan |-> <<Ctx1>>],
       [image_ids |-> <<"a">>,       plan |-> <<Ctx1, Gone>>],
       [image_ids |-> <<"a">>,       plan |-> <<Ctx3>>] >>

Digits == <<"1", "2", "3", "4", "5", "6", "7", "8", "9">>

NTask == Len(Tags) * Len(Variants)

\* records whose id starts with no task tag
OtherEntries ==
    << [id |-> <<"X", "X", "_", "1">>, image_ids |-> <<"a">>,
        plan |-> <<Ctx1>>],
       [id |-> <<"S", "_", "1">>, image_ids |-> <<"a">>, plan |-> <<>>] >>

\* self.train_data_list = list(self.train_config.keys()), 1-based here
train_data_list(k) ==
    IF k <= NTask
    THEN Tags[((k - 1) \div Len(Variants)) + 1]
            \o <<"_", Digits[((k - 1) % Len(Variants)) + 1]>>
    ELSE OtherEntries[k - NTask].id

NTrain == NTask + Len(OtherEntries)

\* the keys of self.train_config
train_ids == {train_data_list(k) : k \in 1 .. NTrain}

\* the keys of self.dataset
dataset_ids == train_ids \cup {Ctx1, Ctx2, Ctx3}

\* the entry of a train id: its variant, read off the id
train_entry(id) ==
    IF \E k \in 1 .. Len(OtherEntries) : OtherEntries[k].id = id
    THEN OtherEntries[CHOOSE k \in 1 .. Len(OtherEntries) :
                        OtherEntries[k].id = id]
    ELSE Variants[CHOOSE v \in 1 .. Len(Variants) : Digits[v] = id[Len(id)]]

\* self.dataset[id]: image_ids, and the tokens its rendered turn encodes to
dataset(id) ==
    IF id = Ctx1 THEN [image_ids |-> <<"a">>, toks |-> <<5>>]
    ELSE IF id = Ctx2 THEN [image_ids |-> <<"b", "a">>, toks |-> <<6, 7>>]
    ELSE IF id = Ctx3 THEN [image_ids |-> <<>>, toks |-> <<5, 5>>]
    ELSE [image_ids |-> train_entry(id).image_ids, toks |-> <<8>>]

\* self.images: the keys of the image store
images == {"a", "b"}

\* self.train_config[id]: the in-context ids of a target
train_config(id) == train_entry(id).plan

\* str.startswith
startswith(id, tag) ==
    /\ Len(id) >= Len(tag)
    /\ SubSeq(id, 1, Len(tag)) = tag

(***************************************************************************)
(* Built text: a sequence of pieces, the placeholder "<image>" or one      *)
(* rendered turn "User: ... GPT:<answer> ...<|endofchunk|>" of a record.   *)
(***************************************************************************)
ImageMarker == [kind |-> "image", id |-> <<>>]
Turn(id) == [kind |-> "turn", id |-> id]

Failed(e) == [err |-> e, patch_images |-> <<>>, all_texts |-> <<>>]
Built(imgs, text) == [err |-> "none", patch_images |-> imgs, all_texts |-> text]

\* random.shuffle(x): for i in reversed(range(1, len(x))): j = randbelow(i + 1);
\* x[i], x[j] = x[j], x[i]   (i, j are 0-based)
Swap(x, i, j) == [x EXCEPT ![i] = x[j], ![j] = x[i]]

RECURSIVE ShuffleFrom(_, _, _)
ShuffleFrom(x, i, s) ==
    IF i < 1 THEN [list |-> x, state |-> s]
    ELSE LET d == RandBelow(s, i + 1)
         IN  ShuffleFrom(Swap(x, i + 1, d.value + 1), i - 1, d.state)

shuffle(x, s) == ShuffleFrom(x, Len(x) - 1, s)

\* the loops over the turns of the text-only templates (lines 226-232,
\* 254-260, 300-306, 331-337): a turn per id, KeyError on an id not in
\* self.dataset
RECURSIVE turns_loop(_, _)
turns_loop(ids, text) ==
    IF ids = <<>> THEN Built(<<>>, text)
    ELSE IF Head(ids) \notin dataset_ids THEN Failed("KeyError")
    ELSE turns_loop(Tail(ids), Append(text, Turn(Head(ids))))

\* the loops over image_ids (lines 237-244, 265-272, 281-288, 310-317,
\* 342-349): the images concatenated in order, KeyError on an id not in
\* self.images
RECURSIVE images_loop(_, _)
images_loop(image_ids, imgs) ==
    IF image_ids = <<>> THEN Built(imgs, <<>>)
    ELSE IF Head(image_ids) \notin images THEN Failed("KeyError")
    ELSE images_loop(Tail(image_ids), Append(imgs, Head(image_ids)))

\* process_llava's loop (lines 198-213): per turn its record's first image and
\* "<image>" followed by the turn
RECURSIVE llava_loop(_, _, _)
llava_loop(ids, imgs, text) ==
    IF ids = <<>> THEN Built(imgs, text)
    ELSE LET cur == Head(ids)
         IN  IF cur \notin dataset_ids THEN Failed("KeyError")
             ELSE IF dataset(cur).image_ids = <<>> THEN Failed("IndexError")
             ELSE IF dataset(cur).image_ids[1] \notin images
                  THEN Failed("KeyError")
             ELSE llava_loop(Tail(ids),
                             Append(imgs, <<dataset(cur).image_ids[1]>>),
                             text \o <<ImageMarker, Turn(cur)>>)

\* process_llava with one leading "<image>" instead of one per turn
process_llava_one_marker(instruction_id, image_ids, in_context_example_ids, s) ==
    Bind(llava_loop(in_context_example_ids \o <<instruction_id>>, <<>>, <<>>),
         LAMBDA r :
        [err |-> r.err, patch_images |-> r.patch_images,
         all_texts |-> <<ImageMarker>> \o
                       SelectSeq(r.all_texts, LAMBDA p : p.kind = "turn"),
         assigned |-> TRUE, rnd |-> s])

\* process_llava (lines 193-219): patch_images has one entry per turn
process_llava(instruction_id, image_ids, in_context_example_ids, s) ==
    Bind(llava_loop(in_context_example_ids \o <<instruction_id>>, <<>>, <<>>),
         LAMBDA r :
        [err |-> r.err, patch_images |-> r.patch_images,
         all_texts |-> r.all_texts, assigned |-> TRUE, rnd |-> s])

\* process_dense_caption (lines 221-247), process_e4d (249-275) and
\* process_funqa (326-352) are the same code: shuffle the ids, render the
\* turns, put one "<image>" in front, then stack the target's images into the
\* single entry of patch_images (unsqueeze(0); an empty one when there is no
\* image)
process_shuffled(instruction_id, image_ids, in_context_example_ids, s) ==
    LET sh == shuffle(in_context_example_ids \o <<instruction_id>>, s)
        t == turns_loop(sh.list, <<>>)
        i == images_loop(image_ids, <<>>)
    IN  IF t.err # "none"
        THEN [err |-> t.err, patch_images |-> <<>>, all_texts |-> <<>>,
              assigned |-> FALSE, rnd |-> sh.state]
        ELSE IF i.err # "none"
        THEN [err |-> i.err, patch_images |-> <<>>, all_texts |-> <<>>,
              assigned |-> FALSE, rnd |-> sh.state]
        ELSE [err |-> "none", patch_images |-> <<i.patch_images>>,
              all_texts |-> <<ImageMarker>> \o t.all_texts,
              assigned |-> TRUE, rnd |-> sh.state]

process_dense_caption(instruction_id, image_ids, in_context_example_ids, s) ==
    process_shuffled(instruction_id, image_ids, in_context_example_ids, s)

process_e4d(instruction_id, image_ids, in_context_example_ids, s) ==
    process_shuffled(instruction_id, image_ids, in_context_example_ids, s)

process_funqa(instruction_id, image_ids, in_context_example_ids, s) ==
    process_shuffled(instruction_id, image_ids, in_context_example_ids, s)

\* process_spot_the_difference (lines 277-295): in_context_example_ids is
\* never read
process_spot_the_difference(instruction_id, image_ids, in_context_example_ids, s) ==
    LET i == images_loop(image_ids, <<>>)
    IN  IF i.err # "none"
        THEN [err |-> i.err, patch_images |-> <<>>, all_texts |-> <<>>,
              assigned |-> FALSE, rnd |-> s]
        ELSE [err |-> "none", patch_images |-> <<i.patch_images>>,
              all_texts |-> <<ImageMarker, Turn(instruction_id)>>,
              assigned |-> TRUE, rnd |-> s]

\* process_scene_navigation (lines 297-324): line 323 reads the local
\* all_texts, which no line assigns, so a call that gets there raises
\* UnboundLocalError
process_scene_navigation(instruction_id, image_ids, in_context_example_ids, s) ==
    LET t == turns_loop(in_context_example_ids, <<>>)
        i == images_loop(image_ids, <<>>)
    IN  [err |-> IF t.err # "none" THEN t.err
                 ELSE IF i.err # "none" THEN i.err
                 ELSE "UnboundLocalError",
         patch_images |-> <<>>, all_texts |-> <<>>,
         assigned |-> FALSE, rnd |-> s]

\* the if/elif chain of lines 372-383; with no branch taken patch_images and
\* all_texts stay unassigned
dispatch(cur_train_id, image_ids, plan, s) ==
    IF startswith(cur_train_id, Tags[1])
    THEN process_llava(cur_train_id, image_ids, plan, s)
    ELSE IF startswith(cur_train_id, Tags[2])
    THEN process_dense_caption(cur_train_id, image_ids, plan, s)
    ELSE IF startswith(cur_train_id, Tags[3])
    THEN process_e4d(cur_train_id, image_ids, plan, s)
    ELSE IF startswith(cur_train_id, Tags[4])
    THEN process_spot_the_difference(cur_train_id, image_ids, plan, s)
    ELSE IF startswith(cur_train_id, Tags[5])
    THEN process_scene_navigation(cur_train_id, image_ids, plan, s)
    ELSE IF startswith(cur_train_id, Tags[6])
    THEN process_funqa(cur_train_id, image_ids, plan, s)
    ELSE [err |-> "none", patch_images |-> <<>>, all_texts |-> <<>>,
          assigned |-> FALSE, rnd |-> s]

(***************************************************************************)
(* The tokenizer (external): one token for "<image>", the record's tokens  *)
(* for a turn; the attention mask has a 1 per token.                       *)
(***************************************************************************)
bos_token_id == 1
eos_token_id == 2
pad_token_id == 3
image_token_id == 4

RECURSIVE tokenizer(_)
tokenizer(text) ==
    IF text = <<>> THEN <<>>
    ELSE (IF Head(text).kind = "image" THEN <<image_token_id>>
          ELSE dataset(Head(text).id).toks) \o tokenizer(Tail(text))

Ones(n) == [k \in 1 .. n |-> 1]

\* lines 396-397 without the end-of-sequence item (the variant of lines
\* 398-399)
frame_tokens_no_eos(src_item, src_item_mask) ==
    [source |-> <<bos_token_id>> \o src_item,
     text_mask |-> <<1>> \o src_item_mask]

\* lines 396-397: torch.cat([bos, src_item, eos]), torch.cat([1, mask, 1])
frame_tokens(src_item, src_item_mask) ==
    [source |-> <<bos_token_id>> \o src_item \o <<eos_token_id>>,
     text_mask |-> <<1>> \o src_item_mask \o <<1>>]

ErrorOutcome(index, id, e, s) ==
    [kind |-> "error", index |-> index, id |-> id, err |-> e,
     tokenized |-> FALSE, text |-> <<>>, tok |-> <<>>, tokmask |-> <<>>,
     source |-> <<>>, text_mask |-> <<>>, patch_images |-> <<>>, rnd |-> s]

\* lines 387-408: tokenize all_texts, frame the tokens, build the example
assemble(index, cur_train_id, b) ==
    Bind(tokenizer(b.all_texts), LAMBDA src_item :
        Bind(frame_tokens(src_item, Ones(Len(src_item))), LAMBDA f :
            [kind |-> "example", index |-> index, id |-> cur_train_id,
             err |-> "none", tokenized |-> TRUE, text |-> b.all_texts,
             tok |-> src_item, tokmask |-> Ones(Len(src_item)),
             source |-> f.source, text_mask |-> f.text_mask,
             patch_images |-> b.patch_images, rnd |-> b.rnd]))

\* lines 370-408, after the lookups of lines 355-368
build_and_assemble(index, cur_train_id, s) ==
    Bind(dispatch(cur_train_id, dataset(cur_train_id).image_ids,
                  train_config(cur_train_id), s),
         LAMBDA b :
            IF b.err # "none"
            THEN ErrorOutcome(index, cur_train_id, b.err, b.rnd)
            ELSE IF ~b.assigned
            \* line 388 reads all_texts to build the tokenizer's argument
            THEN ErrorOutcome(index, cur_train_id, "UnboundLocalError", b.rnd)
            ELSE assemble(index, cur_train_id, b))

\* process_image_text_pair (lines 354-408), run with `random` in state s
process_image_text_pair(index, s) ==
    Bind(train_data_list(index + 1), LAMBDA cur_train_id :
        IF cur_train_id \notin dataset_ids
        THEN ErrorOutcome(index, cur_train_id, "KeyError", s)
        ELSE build_and_assemble(index, cur_train_id, s))

\* __getitem__ with the body run before the scope is entered
getitem_unscoped(index, sd, ep, r, n) ==
    Bind(process_image_text_pair(index, r), LAMBDA o :
        [outcome |-> o, rnd |-> IF sd = None THEN o.rnd ELSE r, npr |-> n])

\* the body of __getitem__ and the exit of its scope
getitem_body(index, e) ==
    Bind(process_image_text_pair(index, e.rnd), LAMBDA o :
        Bind(random_seed_exit(e.frame, o.kind = "error", o.rnd, e.npr),
             LAMBDA x : [outcome |-> o, rnd |-> x.rnd, npr |-> x.npr]))

\* __getitem__ (lines 416-422): the body runs inside
\* random_seed(self.seed, self.epoch); an exception of the body leaves the
\* scope through its finally block
getitem(index, sd, ep, r, n) ==
    Bind(random_seed_enter(sd, <<ep>>, r, n),
         LAMBDA e : getitem_body(index, e))

(***************************************************************************)
(* Spec: one MimicitDataset object and the process-wide generator.         *)
(***************************************************************************)
DataSeeds == {None, Some(1), Some(2)}
Epochs == 0 .. MaxEpoch
Indices == 0 .. (NTrain - 1)

IsShuffled(id) ==
    startswith(id, Tags[2]) \/ startswith(id, Tags[3]) \/ startswith(id, Tags[6])

Order(text) ==
    LET turns == SelectSeq(text, LAMBDA p : p.kind = "turn")
    IN  [k \in 1 .. Len(turns) |-> turns[k].id]

Init ==
    /\ rnd \in RngStates
    /\ npr = 0
    /\ stack = <<>>
    /\ entryLog = <<>>
    /\ lastOp = NoOp
    /\ seed \in DataSeeds
    /\ epoch = 0
    /\ last = NoLast
    /\ samples = <<>>
    /\ batch = NoBatch
    /\ padded = NoPadded
    /\ workers = NoWorkers
    /\ wlog = NoWlog

\* set_epoch (lines 190-191)
SetEpoch(e) ==
    /\ epoch' = e
    /\ last' = NoLast
    /\ UNCHANGED <<rnd, npr, seed, scopeVars, collateVars, workerVars>>

\* a draw from `random` made by other code of the process
UnrelatedDraw ==
    /\ rnd' = Advance(rnd)
    /\ last' = NoLast
    /\ UNCHANGED <<npr, seed, epoch, scopeVars, collateVars, workerVars>>

\* dataset[index]
GetItem(index) ==
    /\ \E g \in {getitem(index, seed, epoch, rnd, npr)} :
           /\ rnd' = g.rnd
           /\ npr' = g.npr
           /\ last' = [g.outcome EXCEPT !.rnd = rnd]
    /\ UNCHANGED <<seed, epoch, scopeVars, collateVars, workerVars>>

Next ==
    \/ \E e \in Epochs : SetEpoch(e)
    \/ UnrelatedDraw
    \/ \E index \in Indices : GetItem(index)

Spec == Init /\ [][Next]_vars

(***************************************************************************)
(* collate_tokens (lines 480-518) and collate_fn (lines 444-477).  A 1-D   *)
(* tensor is a sequence; a 2-D tensor is a sequence of rows.               *)
(***************************************************************************)
Max(a, b) == IF a >= b THEN a ELSE b

RECURSIVE MaxLenOf(_)
MaxLenOf(values) ==
    IF Len(values) = 1 THEN Len(values[1])
    ELSE Max(Len(Head(values)), MaxLenOf(Tail(values)))

Fill(n, v) == [k \in 1 .. n |-> v]

\* line 494 without the "+ 1": rounds down
round_up_floor(size, pad_to_multiple) ==
    ((10 * size - 1) \div (10 * pad_to_multiple)) * pad_to_multiple

\* line 494: int(((size - 0.1) // pad_to_multiple + 1) * pad_to_multiple),
\* in tenths
round_up(size, pad_to_multiple) ==
    (((10 * size - 1) \div (10 * pad_to_multiple)) + 1) * pad_to_multiple

\* lines 491-494
target_size(values, pad_to_length, pad_to_multiple) ==
    LET size0 == MaxLenOf(values)
        size1 == IF pad_to_length = None THEN size0
                 ELSE Max(size0, pad_to_length[1])
    IN  IF pad_to_multiple # 1 /\ size1 % pad_to_multiple # 0
        THEN round_up(size1, pad_to_multiple)
        ELSE size1

\* copy_tensor that always takes the last token of src as the first
copy_tensor_last_token(src, eos_idx, move_eos_to_beginning) ==
    IF move_eos_to_beginning
    THEN IF src = <<>> THEN [err |-> "IndexError", row |-> <<>>]
         ELSE [err |-> "none",
               row |-> <<src[Len(src)]>> \o SubSeq(src, 1, Len(src) - 1)]
    ELSE [err |-> "none", row |-> src]

\* copy_tensor (lines 496-506): what is written into the row's slice.  With
\* an empty src, src[-1] and dst[0] raise IndexError.
copy_tensor(src, eos_idx, move_eos_to_beginning) ==
    IF move_eos_to_beginning
    THEN IF src = <<>> THEN [err |-> "IndexError", row |-> <<>>]
         ELSE [err |-> "none",
               row |-> <<IF eos_idx = None THEN src[Len(src)] ELSE eos_idx[1]>>
                       \o SubSeq(src, 1, Len(src) - 1)]
    ELSE [err |-> "none", row |-> src]

\* line 517 for one row: the slice at the right end with left_pad, at the
\* left end otherwise; the rest keeps the fill of line 509
padded_row(v, size, pad_idx, eos_idx, left_pad, move_eos_to_beginning) ==
    Bind(copy_tensor(v, eos_idx, move_eos_to_beginning), LAMBDA c :
        IF c.err # "none" THEN c
        ELSE [err |-> "none",
              row |-> IF left_pad THEN Fill(size - Len(v), pad_idx) \o c.row
                      ELSE c.row \o Fill(size - Len(v), pad_idx)])

\* collate_tokens with every row padded on the left
collate_tokens_left(values, pad_idx, eos_idx, left_pad, move_eos_to_beginning, pad_to_length, pad_to_multiple) ==
    Bind(target_size(values, pad_to_length, pad_to_multiple), LAMBDA size :
        [kind |-> "tensor", err |-> "none", size |-> size,
         rows |-> [i \in 1 .. Len(values) |->
                    Fill(size - Len(values[i]), pad_idx) \o values[i]]])

\* collate_tokens (lines 480-518) for 1-D values
collate_tokens(values, pad_idx, eos_idx, left_pad, move_eos_to_beginning, pad_to_length, pad_to_multiple) ==
    Bind(target_size(values, pad_to_length, pad_to_multiple), LAMBDA size :
        Bind([i \in 1 .. Len(values) |->
                padded_row(values[i], size, pad_idx, eos_idx, left_pad,
                           move_eos_to_beginning)],
             LAMBDA rs :
                IF \E i \in 1 .. Len(rs) : rs[i].err # "none"
                THEN [kind |-> "error", err |-> "IndexError", size |-> size,
                      rows |-> <<>>]
                ELSE [kind |-> "tensor", err |-> "none", size |-> size,
                      rows |-> [i \in 1 .. Len(rs) |-> rs[i].row]]))

\* the shape of patch_images that torch.stack compares: entries and images
\* per entry (the image shape itself is fixed by the transform)
Shape(patch_images) ==
    <<Len(patch_images),
      IF patch_images = <<>> THEN 0 ELSE Len(patch_images[1])>>

\* merge (lines 448-455)
merge(smpls, key, pad_idx, eos_idx, pading_size) ==
    collate_tokens([i \in 1 .. Len(smpls) |-> smpls[i][key]], pad_idx,
                   Some(eos_idx), FALSE, FALSE, Some(pading_size), 1)

\* collate_fn (lines 444-477)
collate_fn(smpls, pad_idx, eos_idx) ==
    IF Len(smpls) = 0 THEN [kind |-> "empty"]
    ELSE
    Bind(MaxLenOf([i \in 1 .. Len(smpls) |-> smpls[i].source]),
         LAMBDA larger_size :
            IF \E i \in 1 .. Len(smpls) :
                  Shape(smpls[i].patch_images) # Shape(smpls[1].patch_images)
            \* torch.stack of line 475 on tensors of different shapes
            THEN [kind |-> "error", err |-> "RuntimeError"]
            ELSE [kind |-> "batch",
                  id |-> [i \in 1 .. Len(smpls) |-> smpls[i].id],
                  nsentences |-> Len(smpls),
                  input_ids |->
                      merge(smpls, "source", pad_idx, eos_idx, larger_size).rows,
                  attention_masks |->
                      merge(smpls, "text_mask", 0, eos_idx, larger_size).rows,
                  patch_images |->
                      [i \in 1 .. Len(smpls) |-> smpls[i].patch_images]])

(***************************************************************************)
(* SpecCollate: the collation functions applied once to examples drawn by  *)
(* Init.                                                                   *)
(***************************************************************************)
MaxLen == 2         \* longest token sequence of an example
MaxBatch == 2       \* most examples in a batch
MaxMultiple == 3    \* largest pad_to_multiple

Vocab == {eos_token_id, 5}

RECURSIVE SeqsUpTo(_, _)
SeqsUpTo(S, n) ==
    IF n = 0 THEN {<<>>}
    ELSE LET shorter == SeqsUpTo(S, n - 1)
         IN  shorter \cup {Append(q, x) : q \in shorter, x \in S}

PatchChoices == { << <<"a">> >>, << <<"a">>, <<"b">> >> }

Examples ==
    {[id |-> Len(t), source |-> t, text_mask |-> Ones(Len(t)),
      patch_images |-> p] : t \in SeqsUpTo(Vocab, MaxLen), p \in PatchChoices}

InitCollate ==
    /\ rnd = 0
    /\ npr = 0
    /\ stack = <<>>
    /\ entryLog = <<>>
    /\ lastOp = NoOp
    /\ seed = None
    /\ epoch = 0
    /\ last = NoLast
    /\ samples \in UNION {[1 .. n -> Examples] : n \in 0 .. MaxBatch}
    /\ batch = NoBatch
    /\ padded = NoPadded
    /\ workers = NoWorkers
    /\ wlog = NoWlog

PadIds == {0, pad_token_id}
PadLengths == {None, Some(1), Some(MaxLen + 2)}

\* collate_fn(samples, pad_idx, eos_idx)
CollateFn(pad_idx) ==
    /\ batch = NoBatch
    /\ padded = NoPadded
    /\ batch' = [kind |-> "called", pad_idx |-> pad_idx,
                 out |-> collate_fn(samples, pad_idx, eos_token_id)]
    /\ UNCHANGED <<rnd, npr, scopeVars, dataVars, samples, padded, workerVars>>

\* collate_tokens on the samples' token sequences, under every policy
CollateTokens(eos_idx, left_pad, move_eos_to_beginning, pad_to_length, pad_to_multiple) ==
    /\ batch = NoBatch
    /\ padded = NoPadded
    /\ samples # <<>>
    /\ padded' =
         [kind |-> "called", eos_idx |-> eos_idx, left_pad |-> left_pad,
          move_eos_to_beginning |-> move_eos_to_beginning,
          pad_to_length |-> pad_to_length,
          pad_to_multiple |-> pad_to_multiple,
          out |-> collate_tokens(
                      [i \in 1 .. Len(samples) |-> samples[i].source],
                      pad_token_id, eos_idx, left_pad, move_eos_to_beginning,
                      pad_to_length, pad_to_multiple)]
    /\ UNCHANGED <<rnd, npr, scopeVars, dataVars, samples, batch, workerVars>>

NextCollate ==
    \/ \E pad_idx \in PadIds : CollateFn(pad_idx)
    \/ \E eos_idx \in {None, Some(eos_token_id)}, left_pad \in BOOLEAN,
          move_eos_to_beginning \in BOOLEAN, pad_to_length \in PadLengths,
          pad_to_multiple \in 1 .. MaxMultiple :
            CollateTokens(eos_idx, left_pad, move_eos_to_beginning,
                          pad_to_length, pad_to_multiple)

SpecCollate == InitCollate /\ [][NextCollate]_vars

(***************************************************************************)
(* SpecRounding: collate_tokens with only pad_to_multiple set, on token    *)
(* sequences of every length up to MaxTokens.                              *)
(***************************************************************************)
MaxTokens == 9          \* longest token sequence
MaxGranularity == 8     \* largest pad_to_multiple

Plain(n) ==
    [id |-> n, source |-> Fill(n, 5), text_mask |-> Ones(n),
     patch_images |-> << <<"a">> >>]

InitRounding ==
    /\ rnd = 0
    /\ npr = 0
    /\ stack = <<>>
    /\ entryLog = <<>>
    /\ lastOp = NoOp
    /\ seed = None
    /\ epoch = 0
    /\ last = NoLast
    /\ samples \in UNION {[1 .. n -> {Plain(k) : k \in 1 .. MaxTokens}] :
                            n \in 1 .. MaxBatch}
    /\ batch = NoBatch
    /\ padded = NoPadded
    /\ workers = NoWorkers
    /\ wlog = NoWlog

NextRounding ==
    \E pad_to_multiple \in 1 .. MaxGranularity :
        CollateTokens(None, FALSE, FALSE, None, pad_to_multiple)

SpecRounding == InitRounding /\ [][NextRounding]_vars

(***************************************************************************)
(* C1: for every non-null base seed and any extra key components, when a   *)
(* random_seed scope is exited, by its body completing or by its body      *)
(* raising, both generator states equal the states they had just before    *)
(* that scope was entered, whatever was drawn or nested inside; so the     *)
(* state after the outermost exit is the state before the outermost entry. *)
(***************************************************************************)
C1_ExitRestoresEntryState ==
    [][(/\ stack # <<>>
        /\ Len(stack') < Len(stack)
        /\ Top(entryLog) # None)
       => (/\ rnd' = Top(entryLog)[1].rnd
           /\ npr' = Top(entryLog)[1].npr)]_vars

\* a nested seeding scope left by an exception right after a draw, whose exit
\* changed both generators back
C1_Witness ==
    /\ lastOp.op = "exit"
    /\ ~lastOp.nullseed
    /\ lastOp.raised
    /\ lastOp.changed
    /\ lastOp.after = "draw_random"
    /\ lastOp.depth = MaxDepth

(***************************************************************************)
(* C2: with base seed None the scope is a passthrough: entering leaves     *)
(* both generators as they are and saves nothing, and leaving (normally or *)
(* by an exception) leaves both generators as they are, so what the body   *)
(* drew stays drawn exactly as without the scope.                          *)
(***************************************************************************)
C2_NoneIsPassthrough ==
    [][/\ (/\ Len(stack') > Len(stack)
           /\ Top(entryLog') = None)
          => (/\ rnd' = rnd
              /\ npr' = npr
              /\ Top(stack').numpy_state = None
              /\ Top(stack').random_state = None)
       /\ (/\ stack # <<>>
           /\ Len(stack') < Len(stack)
           /\ Top(entryLog) = None)
          => (/\ rnd' = rnd
              /\ npr' = npr)]_vars

\* a None scope, nested in a seeding scope, left right after a draw made in it
C2_Witness ==
    /\ lastOp.op = "exit"
    /\ lastOp.nullseed
    /\ lastOp.after = "draw_random"
    /\ lastOp.depth = MaxDepth
    /\ stack # <<>>
    /\ ~Top(stack).passthrough
    /\ rnd # Top(stack).random_state[1]

(***************************************************************************)
(* What the claims about the builder read off a record id.                 *)
(***************************************************************************)
KnownTask(id) == \E t \in 1 .. Len(Tags) : startswith(id, Tags[t])

IsTask(id, t) == startswith(id, Tags[t])

\* a reference of the target that the corpus does not hold
MissingImage(id) ==
    \E k \in 1 .. Len(dataset(id).image_ids) :
        dataset(id).image_ids[k] \notin images

MissingInContext(id) ==
    \E k \in 1 .. Len(train_config(id)) : train_config(id)[k] \notin dataset_ids

CountMarkers(text) == Len(SelectSeq(text, LAMBDA p : p.kind = "image"))

RECURSIVE TotalImages(_)
TotalImages(patch_images) ==
    IF patch_images = <<>> THEN 0
    ELSE Len(Head(patch_images)) + TotalImages(Tail(patch_images))

(***************************************************************************)
(* C3: for every index of a shuffled task (DC, E4D, FunQA) and every       *)
(* non-null seed, __getitem__ under the same (seed, epoch) gives the same   *)
(* order of turns whatever the states of the generators before the call:   *)
(* the call just made, reached through any draws, set_epoch and            *)
(* __getitem__ calls, agrees with the call made from every other state.    *)
(***************************************************************************)
C3_SameSeedEpochSameOrder ==
    (/\ last.kind # "none"
     /\ seed # None
     /\ IsShuffled(last.id))
    => \A r \in RngStates, n \in RngStates :
          \E g \in {getitem(last.index, seed, epoch, r, n)} :
              /\ g.outcome.kind = last.kind
              /\ Order(g.outcome.text) = Order(last.text)

\* a seeded call, after set_epoch, of a shuffled task with three turns whose
\* order is neither the plan's nor the one a shuffle from the generator's
\* state before the call gives
C3_Witness ==
    /\ last.kind = "example"
    /\ seed # None
    /\ epoch = MaxEpoch
    /\ IsShuffled(last.id)
    /\ Len(Order(last.text)) = 3
    /\ Order(last.text) # train_config(last.id) \o <<last.id>>
    /\ Order(last.text) #
         shuffle(train_config(last.id) \o <<last.id>>, last.rnd).list

(***************************************************************************)
(* C4 as amended: for every task template that builds (LA, DC, E4D, SD,    *)
(* FunQA), the number of "<image>" markers in the text equals the number   *)
(* of entries of patch_images along its first dimension: one entry per     *)
(* turn for LA, one entry holding all the target's images otherwise.  It   *)
(* equals the number of images for LA, and for the other templates when    *)
(* the target has exactly one image.                                       *)
(***************************************************************************)
C4_MarkersMatchEntries ==
    last.kind = "example"
    => /\ CountMarkers(last.text) = Len(last.patch_images)
       /\ (IsTask(last.id, 1) \/ Len(dataset(last.id).image_ids) = 1)
          => CountMarkers(last.text) = TotalImages(last.patch_images)

\* a dense-caption example with one marker and two images
C4_Witness ==
    /\ last.kind = "example"
    /\ IsTask(last.id, 2)
    /\ CountMarkers(last.text) = 1
    /\ Len(last.patch_images) = 1
    /\ TotalImages(last.patch_images) = 2

\* C4 as claimed: the markers count the images, also with zero or several
\* images in the target
C4_MarkersMatchImages ==
    last.kind = "example"
    => CountMarkers(last.text) = TotalImages(last.patch_images)

(***************************************************************************)
(* C5 as claimed: an id whose prefix matches no task tag raises a          *)
(* DataIntegrityError, an explicit unknown-task error, before any          *)
(* tokenization, and never returns an example.                             *)
(***************************************************************************)
C5_UnknownTaskIsExplicitError ==
    (last.kind # "none" /\ ~KnownTask(last.id))
    => /\ last.kind = "error"
       /\ last.err = "DataIntegrityError"
       /\ ~last.tokenized

(***************************************************************************)
(* C7 as claimed: for every task template, a target that lists an image id *)
(* absent from the image store, or whose plan lists an id absent from the  *)
(* corpus, fails to build; a target whose references all exist and whose   *)
(* image_ids is empty builds.                                              *)
(***************************************************************************)
C7_MissingReferenceFails ==
    (last.kind # "none" /\ KnownTask(last.id))
    => /\ (MissingImage(last.id) \/ MissingInContext(last.id))
          => last.kind = "error"
       /\ (/\ ~MissingImage(last.id)
           /\ ~MissingInContext(last.id)
           /\ dataset(last.id).image_ids = <<>>)
          => last.kind = "example"

(***************************************************************************)
(* C8: the assembled example's token ids are bos, the tokenizer's output,  *)
(* eos, and its mask is 1, the tokenizer's attention mask, 1: both of the  *)
(* tokenizer's length plus two.                                            *)
(***************************************************************************)
C8_BosTokensEos ==
    last.kind = "example"
    => /\ last.source = <<bos_token_id>> \o last.tok \o <<eos_token_id>>
       /\ last.text_mask = <<1>> \o last.tokmask \o <<1>>
       /\ Len(last.tokmask) = Len(last.tok)
       /\ Len(last.source) = Len(last.tok) + 2
       /\ Len(last.text_mask) = Len(last.tok) + 2

\* an example assembled from a tokenizer output of at least four tokens
C8_Witness ==
    /\ last.kind = "example"
    /\ last.tokenized
    /\ Len(last.tok) >= 4
    /\ last.source[1] = bos_token_id
    /\ last.source[Len(last.source)] = eos_token_id

(***************************************************************************)
(* C9 as claimed: an SN record whose references all exist builds: the text *)
(* is one leading "<image>" and the in-context turns in plan order,        *)
(* without the target's own turn, with the target's images only.           *)
(***************************************************************************)
C9_SceneNavigationBuilds ==
    (/\ last.kind # "none"
     /\ IsTask(last.id, 5)
     /\ ~MissingImage(last.id)
     /\ ~MissingInContext(last.id))
    => /\ last.kind = "example"
       /\ CountMarkers(last.text) = 1
       /\ last.text[1] = ImageMarker
       /\ Order(last.text) = train_config(last.id)
       /\ last.patch_images = <<dataset(last.id).image_ids>>

(***************************************************************************)
(* Helpers of the collation claims.                                        *)
(***************************************************************************)
SameShapes ==
    \A i \in 1 .. Len(samples) :
        Shape(samples[i].patch_images) = Shape(samples[1].patch_images)

\* row i of a padded batch: example i's values first, then the fill value
RightPadded(rows, key, L, fill) ==
    /\ Len(rows) = Len(samples)
    /\ \A i \in 1 .. Len(samples) :
         /\ Len(rows[i]) = L
         /\ \A k \in 1 .. L :
              rows[i][k] = IF k <= Len(samples[i][key])
                           THEN samples[i][key][k] ELSE fill

PaddingHolds ==
    LET L == MaxLenOf([i \in 1 .. Len(samples) |-> samples[i].source])
    IN  /\ RightPadded(batch.out.input_ids, "source", L, batch.pad_idx)
        /\ RightPadded(batch.out.attention_masks, "text_mask", L, 0)

\* the slice of row i that copy_tensor wrote
Copied(i) ==
    LET row == padded.out.rows[i]
        n == Len(samples[i].source)
    IN  IF padded.left_pad
        THEN SubSeq(row, Len(row) - n + 1, Len(row))
        ELSE SubSeq(row, 1, n)

NoEmptySource == \A i \in 1 .. Len(samples) : samples[i].source # <<>>

(***************************************************************************)
(* C6 (as amended): collate_fn returns a batch for a non-empty list of     *)
(* examples exactly when their patch_images all have the same shape (the   *)
(* stacking of line 475 raises otherwise); the batch it returns has        *)
(* input_ids and attention_masks of shape (batch size, L), L the largest   *)
(* token count, row i holding example i's tokens (mask bits) unchanged in  *)
(* positions 0..len_i-1 and pad_idx (0 for the mask) from len_i to L-1.    *)
(***************************************************************************)
C6_PadsToLongestWhenStackable ==
    (batch.kind = "called" /\ samples # <<>>) =>
        /\ (batch.out.kind = "batch") <=> SameShapes
        /\ (batch.out.kind = "batch") => PaddingHolds

C6_Witness ==
    /\ batch.kind = "called"
    /\ batch.out.kind = "batch"
    /\ batch.pad_idx = pad_token_id
    /\ Len(samples) = 2
    /\ Len(samples[1].source) = 1
    /\ Len(samples[2].source) = 2
    /\ batch.out.input_ids[1][2] = pad_token_id
    /\ batch.out.attention_masks[1][2] = 0

(***************************************************************************)
(* C6 as stated: for every non-empty list of examples collate_fn returns   *)
(* the padded input_ids and attention_masks.                               *)
(***************************************************************************)
C6_PadsToLongestAlways ==
    (batch.kind = "called" /\ samples # <<>>) =>
        /\ batch.out.kind = "batch"
        /\ PaddingHolds

(***************************************************************************)
(* C10 (as amended): with move_eos_to_beginning enabled, the row copied    *)
(* from a non-empty src starts with eos_idx when an eos_idx is passed and  *)
(* with src[-1] only when eos_idx is None, followed by src[0..len-2]; with *)
(* the policy disabled the row is src unchanged.                           *)
(***************************************************************************)
C10_FirstIsEosIdxOrLastToken ==
    (padded.kind = "called" /\ NoEmptySource) =>
        /\ padded.out.kind = "tensor"
        /\ \A i \in 1 .. Len(samples) :
             LET src == samples[i].source
                 first == IF padded.eos_idx = None THEN src[Len(src)]
                          ELSE padded.eos_idx[1]
             IN  Copied(i) = IF padded.move_eos_to_beginning
                             THEN <<first>> \o SubSeq(src, 1, Len(src) - 1)
                             ELSE src

C10_Witness ==
    /\ padded.kind = "called"
    /\ padded.move_eos_to_beginning
    /\ padded.eos_idx = Some(eos_token_id)
    /\ padded.out.kind = "tensor"
    /\ Len(samples) = 1
    /\ samples[1].source = <<eos_token_id, 5>>
    /\ Copied(1) = <<eos_token_id, eos_token_id>>

(***************************************************************************)
(* C10 as stated: with move_eos_to_beginning enabled the copied row is the *)
(* rotation of src whatever eos_idx is passed: its first element is        *)
(* src[-1] and the rest is src[0..len-2]; disabled, the row is src.        *)
(***************************************************************************)
C10_RowIsRotation ==
    (padded.kind = "called" /\ NoEmptySource) =>
        /\ padded.out.kind = "tensor"
        /\ \A i \in 1 .. Len(samples) :
             LET src == samples[i].source
             IN  Copied(i) = IF padded.move_eos_to_beginning
                             THEN <<src[Len(src)]>> \o SubSeq(src, 1, Len(src) - 1)
                             ELSE src

(***************************************************************************)
(* C11: for every largest token count s >= 1 and every granularity         *)
(* m >= 1, collate_tokens with pad_to_multiple = m pads to the smallest    *)
(* multiple of m that is >= s (s itself when m divides s), and every       *)
(* position of a row beyond its sequence's length holds the pad value.     *)
(***************************************************************************)
C11_RoundsUpToMultiple ==
    padded.kind = "called" =>
        LET s == MaxLenOf([i \in 1 .. Len(samples) |-> samples[i].source])
            m == padded.pad_to_multiple
            size == padded.out.size
        IN  /\ padded.out.kind = "tensor"
            /\ size % m = 0
            /\ size >= s
            /\ size - m < s
            /\ (s % m = 0) => size = s
            /\ \A i \in 1 .. Len(samples) :
                 /\ Len(padded.out.rows[i]) = size
                 /\ \A k \in 1 .. size :
                      padded.out.rows[i][k] =
                          IF k <= Len(samples[i].source)
                          THEN samples[i].source[k] ELSE pad_token_id

\* token counts 5 and 9 with granularity 8: target length 16
C11_Witness ==
    /\ padded.kind = "called"
    /\ padded.pad_to_multiple = 8
    /\ Len(samples) = 2
    /\ Len(samples[1].source) = 5
    /\ Len(samples[2].source) = 9
    /\ padded.out.kind = "tensor"
    /\ padded.out.size = 16
    /\ padded.out.rows[2] = Fill(9, 5) \o Fill(7, pad_token_id)

(***************************************************************************)
(* Helpers of the worker claim.                                            *)
(***************************************************************************)
BothExited == \A w \in Workers : workers[w].pc = "done"

\* one scope is entered and left before the other is entered
Serialized ==
    /\ Len(wlog.events) = 4
    /\ wlog.events[1][2] = "enter"
    /\ wlog.events[2][2] = "exit"

\* A enters, B enters, A exits, B exits
OverlapWithoutNesting ==
    /\ Len(wlog.events) = 4
    /\ wlog.events[1][2] = "enter"
    /\ wlog.events[2][2] = "enter"
    /\ wlog.events[3][1] = wlog.events[1][1]

(***************************************************************************)
(* C12: two workers each run a random_seed scope with a non-null seed on   *)
(* the same process-wide generators.  If the scopes do not overlap, both   *)
(* generators are, after both exits, in their states before the first      *)
(* entry.  If they overlap without nesting (A enters, B enters, A exits,   *)
(* B exits), the generators end in the states B saved at its entry, those  *)
(* A's seeding and draws had produced, which can differ from the states    *)
(* before the first entry.                                                 *)
(***************************************************************************)
C12_SerializedRestoresOverlapLeaks ==
    BothExited =>
        /\ Serialized => <<rnd, npr>> = wlog.origin[1]
        /\ OverlapWithoutNesting => <<rnd, npr>> = wlog.second[1]

\* overlapped without nesting, and after both exits neither generator is in
\* its state before the first entry
C12_Witness ==
    /\ BothExited
    /\ OverlapWithoutNesting
    /\ rnd # wlog.origin[1][1]
    /\ npr # wlog.origin[1][2]

====
